---- MODULE Spec2Model ----
(***************************************************************************)
(* Battery time estimation (src/battery_monitor/estimations.py), the       *)
(* logging loop (src/battery_monitor/battery_logger_main.py) and the       *)
(* launcher of the logger and the settings server                          *)
(* (src/run_battery_logger.py).                                            *)
(*                                                                         *)
(* Units.  A timestamp is an integer number of minutes relative to the     *)
(* first sample; a percentage is an integer number of tenths of a percent  *)
(* (500 is 50.0 %).  Every quantity the code computes as a float (rates,   *)
(* weights, confidences, minutes left) is an exact fraction <<n, d>> with  *)
(* d > 0 in lowest terms, so two equal numbers have one representation.    *)
(* The input sets avoid percentage drops that sit exactly on a threshold,  *)
(* where binary floating point and exact arithmetic could disagree.        *)
(***************************************************************************)
EXTENDS Integers, Sequences, FiniteSets, TLC

VARIABLES data, ret, ghost, calls, logger, runner

vars == <<data, ret, ghost, calls, logger, runner>>

\* The logging loop and the launcher while nothing has started them.
NoLogger == [pc |-> "idle"]

NoRunner == [pc |-> "idle"]

\* Longest sample series handed to the estimators.
MaxLen == 4

(***************************************************************************)
(* Exact fractions                                                         *)
(***************************************************************************)
Abs(x) == IF x < 0 THEN -x ELSE x

RECURSIVE GCD(_, _)
GCD(a, b) == IF b = 0 THEN a ELSE GCD(b, a % b)

\* Python's None.
None == << >>

\* The value of a division whose divisor is zero (ZeroDivisionError for
\* Python floats, inf or nan for numpy floats); it absorbs every operation.
DivByZero == <<0, 0>>

Frac(n, d) ==
    IF d = 0 THEN DivByZero
    ELSE LET s == IF d < 0 THEN -1 ELSE 1
             g == GCD(Abs(n), Abs(d))
         IN  <<(s * n) \div g, (s * d) \div g>>

Int2F(n) == <<n, 1>>

Bad(x) == x[2] = 0

\* Sums and comparisons go through the least common denominator.
FAdd(x, y) == IF Bad(x) \/ Bad(y) THEN DivByZero
              ELSE LET g == GCD(x[2], y[2])
                   IN  Frac(x[1] * (y[2] \div g) + y[1] * (x[2] \div g),
                            (x[2] \div g) * y[2])

FNeg(x) == <<-x[1], x[2]>>

FSub(x, y) == FAdd(x, FNeg(y))

FMul(x, y) == IF Bad(x) \/ Bad(y) THEN DivByZero
              ELSE LET a == Frac(x[1], y[2])
                       b == Frac(y[1], x[2])
                   IN  <<a[1] * b[1], a[2] * b[2]>>

FDiv(x, y) == IF Bad(x) \/ Bad(y) \/ y[1] = 0 THEN DivByZero
              ELSE FMul(x, Frac(y[2], y[1]))

\* A comparison with the value of a division by zero is false.
FLe(x, y) == /\ ~Bad(x)
             /\ ~Bad(y)
             /\ LET g == GCD(x[2], y[2])
                IN  x[1] * (y[2] \div g) <= y[1] * (x[2] \div g)

FLt(x, y) == /\ ~Bad(x)
             /\ ~Bad(y)
             /\ LET g == GCD(x[2], y[2])
                IN  x[1] * (y[2] \div g) < y[1] * (x[2] \div g)

FMin(x, y) == IF Bad(x) \/ Bad(y) THEN DivByZero
              ELSE IF FLe(x, y) THEN x ELSE y

RECURSIVE FSum(_)
FSum(s) == IF s = << >> THEN Int2F(0) ELSE FAdd(s[1], FSum(Tail(s)))

RECURSIVE Pow2(_)
Pow2(i) == IF i = 0 THEN 1 ELSE 2 * Pow2(i - 1)

(***************************************************************************)
(* The sample series (a pandas DataFrame, one row per logged sample)       *)
(***************************************************************************)
\* A timestamp cell is <<kind, minutes>>.  The logger writes the text form
\* "%Y-%m-%d %H:%M:%S"; pd.to_datetime turns text into a datetime value and
\* Timestamp.isoformat() turns a datetime value into ISO text (with a "T").
StrCell(t) == <<"str_space", t>>
DtCell(t) == <<"datetime", t>>
IsoCell(t) == <<"str_iso", t>>

\* Text that does not parse as a date; t is the minute the row was logged.
BadCell(t) == <<"str_bad", t>>

to_datetime(cell) == DtCell(cell[2])

isoformat(cell) == IsoCell(cell[2])

is_datetime64_any_dtype(d) == \A k \in 1..Len(d) : d[k].timestamp[1] = "datetime"

\* pd.to_datetime raises ValueError when a cell of the column does not parse.
to_datetime_raises(d) ==
    /\ ~is_datetime64_any_dtype(d)
    /\ \E k \in 1..Len(d) : d[k].timestamp[1] = "str_bad"

\* A power_plugged cell holds Python's False, True or None; a one-element
\* tuple carries the boolean, the empty tuple (see None) the missing value.
PyFalse == <<FALSE>>
PyTrue == <<TRUE>>

\* Rows are addressed with the code's 0-based positions (.iloc[i]).
iloc(d, i) == d[i + 1]

\* Minutes from row i to row j of a frame whose timestamps are datetimes.
minutes_between(d, i, j) == iloc(d, j).timestamp[2] - iloc(d, i).timestamp[2]

\* data['timestamp'] = pd.to_datetime(data['timestamp'])
RECURSIVE convert_rows(_)
convert_rows(d) ==
    IF d = << >> THEN << >>
    ELSE <<[d[1] EXCEPT !.timestamp = to_datetime(@)]>> \o convert_rows(Tail(d))

\* When the conversion raises, the assignment of line 63 does not happen.
convert_timestamps(d) ==
    IF is_datetime64_any_dtype(d) THEN d
    ELSE IF to_datetime_raises(d) THEN d
    ELSE convert_rows(d)

(***************************************************************************)
(* get_weighted_average_drain_rate                                         *)
(***************************************************************************)
\* start_idx = None
NoIdx == -1

max_gap_minutes == 5

\* As weighted_scan_step, without the test of the time gap.
weighted_scan_step_no_gap_test(d, i, st) ==
    LET current_plugged == iloc(d, i).power_plugged
        prev_plugged == iloc(d, i - 1).power_plugged
    IN  IF current_plugged = PyFalse /\ prev_plugged = PyFalse
        THEN IF st.start_idx = NoIdx
             THEN [st EXCEPT !.start_idx = i - 1]
             ELSE st
        ELSE IF st.start_idx # NoIdx
             THEN [start_idx |-> NoIdx,
                   intervals |-> IF i - 1 > st.start_idx
                                 THEN Append(st.intervals, <<st.start_idx, i - 1>>)
                                 ELSE st.intervals]
             ELSE st

\* One pass of the loop body of the scan at position i (lines 70-84).
weighted_scan_step(d, i, st) ==
    LET current_plugged == iloc(d, i).power_plugged
        prev_plugged == iloc(d, i - 1).power_plugged
        time_gap == minutes_between(d, i - 1, i)
    IN  IF current_plugged = PyFalse /\ prev_plugged = PyFalse /\ time_gap <= max_gap_minutes
        THEN IF st.start_idx = NoIdx
             THEN [st EXCEPT !.start_idx = i - 1]
             ELSE st
        ELSE IF st.start_idx # NoIdx
             THEN [start_idx |-> NoIdx,
                   intervals |-> IF i - 1 > st.start_idx
                                 THEN Append(st.intervals, <<st.start_idx, i - 1>>)
                                 ELSE st.intervals]
             ELSE st

RECURSIVE weighted_scan_loop(_, _, _)
weighted_scan_loop(d, i, st) ==
    IF i >= Len(d) THEN st
    ELSE weighted_scan_loop(d, i + 1, weighted_scan_step(d, i, st))

\* As weighted_intervals, without lines 87-88: a run still open at the last
\* sample is lost.
weighted_intervals_open_run_lost(d) ==
    weighted_scan_loop(d, 1, [start_idx |-> NoIdx, intervals |-> << >>]).intervals

\* The interval list after the scan and the closing of an open run.
weighted_intervals(d) ==
    LET st == weighted_scan_loop(d, 1, [start_idx |-> NoIdx, intervals |-> << >>])
    IN  IF st.start_idx # NoIdx /\ st.start_idx < Len(d) - 1
        THEN Append(st.intervals, <<st.start_idx, Len(d) - 1>>)
        ELSE st.intervals

max_recent_intervals == 10

\* As recent_intervals, keeping every interval.
recent_intervals_untruncated(intervals) == intervals

\* recent_intervals = intervals[-10:] if len(intervals) > 10 else intervals
recent_intervals(intervals) ==
    IF Len(intervals) > max_recent_intervals
    THEN SubSeq(intervals, Len(intervals) - max_recent_intervals + 1, Len(intervals))
    ELSE intervals

min_duration_minutes == 2

\* 0.5 percent, in tenths of a percent.
min_drop_tenths == 5

duration_cap_minutes == 120

\* As weighted_admits, testing the duration only.
weighted_admits_duration_only(time_diff, start_percent, end_percent) ==
    time_diff >= min_duration_minutes

\* The admission test of line 110.
weighted_admits(time_diff, start_percent, end_percent) ==
    /\ time_diff >= min_duration_minutes
    /\ start_percent > end_percent
    /\ (start_percent - end_percent) >= min_drop_tenths

\* As recency_weight, counting positions from the newest interval.
recency_weight_reversed(i, total_intervals) == Pow2(total_intervals - 1 - i)

\* recency_weight = pow(2, i)
recency_weight(i, total_intervals) == Pow2(i)

\* As weighted_entry, without the cap of the duration weight at 120 minutes.
weighted_entry_uncapped(d, i, total_intervals, start, end) ==
    LET start_percent == iloc(d, start).percentage
        end_percent == iloc(d, end).percentage
        time_diff == minutes_between(d, start, end)
    IN  [pos |-> i, start |-> start, end |-> end,
         drain_rate |-> FDiv(Frac(start_percent - end_percent, 10), Int2F(time_diff)),
         weight |-> Int2F(time_diff * recency_weight(i, total_intervals)),
         duration |-> time_diff,
         recency |-> recency_weight(i, total_intervals)]

\* What one admitted interval appends to drain_rates, weights, durations and
\* recent_weight_multiplier (lines 111-125); start and end are kept with it.
weighted_entry(d, i, total_intervals, start, end) ==
    LET start_percent == iloc(d, start).percentage
        end_percent == iloc(d, end).percentage
        time_diff == minutes_between(d, start, end)
        duration_weight == IF time_diff < duration_cap_minutes
                           THEN time_diff ELSE duration_cap_minutes
    IN  [pos |-> i, start |-> start, end |-> end,
         drain_rate |-> FDiv(Frac(start_percent - end_percent, 10), Int2F(time_diff)),
         weight |-> Int2F(duration_weight * recency_weight(i, total_intervals)),
         duration |-> time_diff,
         recency |-> recency_weight(i, total_intervals)]

\* The loop of lines 102-125 over recent_intervals, from position i on.
RECURSIVE weighted_loop(_, _, _)
weighted_loop(d, recent, i) ==
    IF i >= Len(recent) THEN << >>
    ELSE LET start == recent[i + 1][1]
             end == recent[i + 1][2]
             rest == weighted_loop(d, recent, i + 1)
         IN  IF weighted_admits(minutes_between(d, start, end),
                                iloc(d, start).percentage, iloc(d, end).percentage)
             THEN <<weighted_entry(d, i, Len(recent), start, end)>> \o rest
             ELSE rest

\* As weighted_average_of, dividing by the number of rates.
weighted_average_by_count(used) ==
    FDiv(FSum([k \in 1..Len(used) |-> FMul(used[k].drain_rate, used[k].weight)]),
         Int2F(Len(used)))

\* As weighted_average_of, for the plain mean of the rates.
weighted_average_unweighted(used) ==
    FDiv(FSum([k \in 1..Len(used) |-> used[k].drain_rate]), Int2F(Len(used)))

\* weighted_average = sum(rate * weight ...) / sum(weights)
weighted_average_of(used) ==
    FDiv(FSum([k \in 1..Len(used) |-> FMul(used[k].drain_rate, used[k].weight)]),
         FSum([k \in 1..Len(used) |-> used[k].weight]))

\* interval_details (lines 134-146): entry i pairs the i-th recent interval
\* with the i-th element of drain_rates, durations and weights.
interval_details_of(d, recent, used) ==
    [i \in 1..(IF Len(used) < Len(recent) THEN Len(used) ELSE Len(recent)) |->
        [start_time |-> isoformat(iloc(d, recent[i][1]).timestamp),
         end_time |-> isoformat(iloc(d, recent[i][2]).timestamp),
         duration_minutes |-> used[i].duration,
         data_points |-> recent[i][2] - recent[i][1] + 1,
         start_percentage |-> iloc(d, recent[i][1]).percentage,
         end_percentage |-> iloc(d, recent[i][2]).percentage,
         drain_rate |-> used[i].drain_rate,
         weight |-> used[i].weight]]

\* As normalized_variance_of, taking a single rate to have no variance.
normalized_variance_zero_for_one(used, weighted_average) ==
    IF Len(used) > 1
    THEN LET sq(k) == LET df == FSub(used[k].drain_rate, weighted_average)
                      IN  FMul(df, df)
             variance == FDiv(FSum([k \in 1..Len(used) |-> sq(k)]), Int2F(Len(used)))
         IN  IF FLt(Int2F(0), weighted_average)
             THEN FMin(FDiv(variance, weighted_average), Int2F(1))
             ELSE Int2F(1)
    ELSE Int2F(0)

\* normalized_variance (lines 156-160)
normalized_variance_of(used, weighted_average) ==
    IF Len(used) > 1
    THEN LET sq(k) == LET df == FSub(used[k].drain_rate, weighted_average)
                      IN  FMul(df, df)
             variance == FDiv(FSum([k \in 1..Len(used) |-> sq(k)]), Int2F(Len(used)))
         IN  IF FLt(Int2F(0), weighted_average)
             THEN FMin(FDiv(variance, weighted_average), Int2F(1))
             ELSE Int2F(1)
    ELSE Frac(1, 2)

\* As weighted_confidence_of, with the factors 0.4 and 0.3 of the interval
\* count and of the total duration exchanged.
weighted_confidence_factors_exchanged(used, weighted_average) ==
    LET total_duration == FSum([k \in 1..Len(used) |-> Int2F(used[k].duration)])
        num_intervals == Len(used)
        interval_confidence == FMin(Frac(num_intervals, 5), Int2F(1))
        duration_confidence == FMin(FDiv(total_duration, Int2F(60)), Int2F(1))
        consistency_confidence == FSub(Int2F(1), normalized_variance_of(used, weighted_average))
    IN  FAdd(FAdd(FMul(interval_confidence, Frac(3, 10)),
                  FMul(duration_confidence, Frac(4, 10))),
             FMul(consistency_confidence, Frac(3, 10)))

\* confidence (lines 152-168)
weighted_confidence_of(used, weighted_average) ==
    LET total_duration == FSum([k \in 1..Len(used) |-> Int2F(used[k].duration)])
        num_intervals == Len(used)
        interval_confidence == FMin(Frac(num_intervals, 5), Int2F(1))
        duration_confidence == FMin(FDiv(total_duration, Int2F(60)), Int2F(1))
        consistency_confidence == FSub(Int2F(1), normalized_variance_of(used, weighted_average))
    IN  FAdd(FAdd(FMul(interval_confidence, Frac(4, 10)),
                  FMul(duration_confidence, Frac(3, 10))),
             FMul(consistency_confidence, Frac(3, 10)))

\* The 4-tuple of line 170, as a record.
weighted_tuple(d, recent, used, weighted_average) ==
    [average_drain_rate |-> weighted_average,
     confidence |-> weighted_confidence_of(used, weighted_average),
     num_intervals |-> Len(used),
     interval_details |-> interval_details_of(d, recent, used)]

\* Lines 90-91 and 127-170 for the scanned intervals and the admitted entries.
weighted_return(d, intervals, used) ==
    IF intervals = << >> THEN None
    ELSE IF used = << >> THEN None
    ELSE weighted_tuple(d, recent_intervals(intervals), used, weighted_average_of(used))

\* drain_rates, weights and durations after the loop of lines 102-125.
weighted_used(d, intervals) == weighted_loop(d, recent_intervals(intervals), 0)

weighted_from_intervals(d, intervals) ==
    weighted_return(d, intervals, weighted_used(d, intervals))

\* The function on a frame whose timestamps are already datetimes.
get_weighted_average_drain_rate(d) == weighted_from_intervals(d, weighted_intervals(d))

(***************************************************************************)
(* estimate_time_left_data_based, estimate_time_on_full_battery            *)
(***************************************************************************)
\* A call that ends in an exception returns nothing; raised names the error.
NotRaised == "no"

\* data['percentage'].iloc[-1]: IndexError on an empty frame.
last_percentage(d) == IF Len(d) = 0 THEN None ELSE Int2F(d[Len(d)].percentage)

\* As weighted_result_is_none, for code that does not test for None.
weighted_result_is_none_untested(result) == FALSE

\* The test `result is None` of lines 20 and 183.
weighted_result_is_none(result) == result = None

\* Lines 20-48 for the result of get_weighted_average_drain_rate.
time_left_from(result, current_battery_percent) ==
    IF weighted_result_is_none(result)
    THEN [raised |-> NotRaised, time_left_minutes |-> None, confidence |-> Int2F(0),
          intervals_used |-> 0, average_drain_rate |-> None, interval_details |-> << >>]
    ELSE IF result = None
    THEN [raised |-> "TypeError", time_left_minutes |-> None, confidence |-> None,
          intervals_used |-> 0, average_drain_rate |-> None, interval_details |-> << >>]
    ELSE IF current_battery_percent = None
    THEN [raised |-> "IndexError", time_left_minutes |-> None, confidence |-> None,
          intervals_used |-> 0, average_drain_rate |-> None, interval_details |-> << >>]
    ELSE IF FLt(Int2F(0), result.average_drain_rate)
    THEN [raised |-> NotRaised,
          time_left_minutes |-> FDiv(FDiv(current_battery_percent, Int2F(10)),
                                     result.average_drain_rate),
          confidence |-> result.confidence,
          intervals_used |-> result.num_intervals,
          average_drain_rate |-> result.average_drain_rate,
          interval_details |-> result.interval_details]
    ELSE [raised |-> NotRaised, time_left_minutes |-> None, confidence |-> Int2F(0),
          intervals_used |-> result.num_intervals, average_drain_rate |-> None,
          interval_details |-> result.interval_details]

estimate_time_left_data_based(d) ==
    time_left_from(get_weighted_average_drain_rate(d), last_percentage(d))

\* Lines 183-210 for the result of get_weighted_average_drain_rate.
full_battery_from(result) ==
    IF weighted_result_is_none(result)
    THEN [raised |-> NotRaised, full_battery_time_minutes |-> None,
          confidence |-> Int2F(0), intervals_used |-> 0,
          average_drain_rate |-> None, interval_details |-> << >>]
    ELSE IF result = None
    THEN [raised |-> "TypeError", full_battery_time_minutes |-> None,
          confidence |-> None, intervals_used |-> 0,
          average_drain_rate |-> None, interval_details |-> << >>]
    ELSE IF FLt(Int2F(0), result.average_drain_rate)
    THEN [raised |-> NotRaised,
          full_battery_time_minutes |-> FDiv(Int2F(100), result.average_drain_rate),
          confidence |-> result.confidence,
          intervals_used |-> result.num_intervals,
          average_drain_rate |-> result.average_drain_rate,
          interval_details |-> result.interval_details]
    ELSE [raised |-> NotRaised, full_battery_time_minutes |-> None,
          confidence |-> Int2F(0), intervals_used |-> result.num_intervals,
          average_drain_rate |-> None, interval_details |-> result.interval_details]

estimate_time_on_full_battery(d) == full_battery_from(get_weighted_average_drain_rate(d))

(***************************************************************************)
(* estimate_time_left_last_interval, estimate_full_battery_last_interval   *)
(***************************************************************************)
max_gap_minutes_last == 5

\* As last_scan_step, without the test of the previous sample's flag.
last_scan_step_ignores_prev(d, i, st) ==
    LET current_plugged == iloc(d, i).power_plugged
        time_gap == minutes_between(d, i - 1, i)
    IN  IF current_plugged = PyFalse /\ time_gap <= max_gap_minutes_last
        THEN IF st.start_idx = NoIdx
             THEN [st EXCEPT !.start_idx = i - 1]
             ELSE st
        ELSE IF st.start_idx # NoIdx
             THEN [start_idx |-> NoIdx,
                   intervals |-> IF i - 1 > st.start_idx
                                 THEN Append(st.intervals, <<st.start_idx, i - 1>>)
                                 ELSE st.intervals]
             ELSE st

\* One pass of the loop body of the second copy of the scan (lines 231-245).
last_scan_step(d, i, st) ==
    LET current_plugged == iloc(d, i).power_plugged
        prev_plugged == iloc(d, i - 1).power_plugged
        time_gap == minutes_between(d, i - 1, i)
    IN  IF current_plugged = PyFalse /\ prev_plugged = PyFalse /\ time_gap <= max_gap_minutes_last
        THEN IF st.start_idx = NoIdx
             THEN [st EXCEPT !.start_idx = i - 1]
             ELSE st
        ELSE IF st.start_idx # NoIdx
             THEN [start_idx |-> NoIdx,
                   intervals |-> IF i - 1 > st.start_idx
                                 THEN Append(st.intervals, <<st.start_idx, i - 1>>)
                                 ELSE st.intervals]
             ELSE st

RECURSIVE last_scan_loop(_, _, _)
last_scan_loop(d, i, st) ==
    IF i >= Len(d) THEN st
    ELSE last_scan_loop(d, i + 1, last_scan_step(d, i, st))

\* As last_scan_intervals, without the closing of a run that is still open
\* at the last sample (lines 247-249).
last_scan_intervals_open_run_lost(d) ==
    last_scan_loop(d, 1, [start_idx |-> NoIdx, intervals |-> << >>]).intervals

last_scan_intervals(d) ==
    LET st == last_scan_loop(d, 1, [start_idx |-> NoIdx, intervals |-> << >>])
    IN  IF st.start_idx # NoIdx /\ st.start_idx < Len(d) - 1
        THEN Append(st.intervals, <<st.start_idx, Len(d) - 1>>)
        ELSE st.intervals

\* battery_indices (lines 254-257), in ascending order.
RECURSIVE battery_indices_from(_, _)
battery_indices_from(d, i) ==
    IF i >= Len(d) THEN << >>
    ELSE IF iloc(d, i).power_plugged = PyFalse
         THEN <<i>> \o battery_indices_from(d, i + 1)
         ELSE battery_indices_from(d, i + 1)

battery_indices(d) == battery_indices_from(d, 0)

max_fallback_points == 10

\* As fallback_intervals, starting at the first on-battery sample.
fallback_intervals_from_first(d) ==
    LET bi == battery_indices(d)
    IN  IF Len(bi) >= 2
        THEN << <<bi[1], bi[Len(bi)]>> >>
        ELSE << >>

\* The interval built when the scan found none (lines 259-263), or << >>.
fallback_intervals(d) ==
    LET bi == battery_indices(d)
        n == IF Len(bi) < max_fallback_points THEN Len(bi) ELSE max_fallback_points
    IN  IF Len(bi) >= 2
        THEN << <<bi[Len(bi) - n + 1], bi[Len(bi)]>> >>
        ELSE << >>

\* As with_fallback, for an estimator without the fallback step.
with_fallback_never(d, scan) == scan

\* Lines 252-263: the scan's list, or the fallback when the scan found none.
with_fallback(d, scan) == IF scan = << >> THEN fallback_intervals(d) ELSE scan

\* The interval list of the last-interval estimator after the fallback step.
last_intervals(d) == with_fallback(d, last_scan_intervals(d))

min_duration_minutes_last == 1

\* 0.1 percent, in tenths of a percent.
min_drop_tenths_last == 1

\* As last_admits, without the test of the duration.
last_admits_any_duration(time_diff, start_percent, end_percent) ==
    /\ start_percent > end_percent
    /\ (start_percent - end_percent) >= min_drop_tenths_last

\* As last_admits, with thresholds twice those of the weighted estimator's
\* line 110 in place of those of line 283.
last_admits_stricter(time_diff, start_percent, end_percent) ==
    /\ time_diff >= 2 * min_duration_minutes
    /\ start_percent - end_percent >= 2 * min_drop_tenths

\* The admission test of line 283.
last_admits(time_diff, start_percent, end_percent) ==
    /\ time_diff >= min_duration_minutes_last
    /\ start_percent > end_percent
    /\ (start_percent - end_percent) >= min_drop_tenths_last

\* As drop_confidence_of, without the cap at 1.
drop_confidence_uncapped(drop_tenths) == Frac(drop_tenths, 20)

\* drop_confidence = min((start_percent - end_percent) / 2.0, 1.0)
drop_confidence_of(drop_tenths) == FMin(Frac(drop_tenths, 20), Int2F(1))

\* As duration_confidence_of, reaching 1 after an hour.
duration_confidence_per_hour(time_diff) == FMin(Frac(time_diff, 60), Int2F(1))

\* duration_confidence = min(time_diff / 15.0, 1.0)
duration_confidence_of(time_diff) == FMin(Frac(time_diff, 15), Int2F(1))

\* (start_percent - end_percent) / time_diff, in percent per minute.
rate_of(drop_tenths, time_diff) == FDiv(Frac(drop_tenths, 10), Int2F(time_diff))

\* Lines 283-308: the estimate from an interval that passed the test.
last_estimate(d, start, end, time_diff, start_percent, end_percent, drain_rate) ==
    [raised |-> NotRaised,
     time_left_minutes |-> IF FLt(Int2F(0), drain_rate)
                           THEN FDiv(FDiv(last_percentage(d), Int2F(10)), drain_rate)
                           ELSE None,
     confidence |-> FDiv(FAdd(duration_confidence_of(time_diff),
                              drop_confidence_of(start_percent - end_percent)),
                         Int2F(2)),
     drain_rate |-> drain_rate,
     debug |-> <<"Interval", start, end, time_diff, start_percent - end_percent>>,
     has_interval_details |-> TRUE,
     interval_details |->
        << [start_time |-> isoformat(iloc(d, start).timestamp),
            end_time |-> isoformat(iloc(d, end).timestamp),
            duration_minutes |-> time_diff,
            data_points |-> end - start + 1,
            start_percentage |-> start_percent,
            end_percentage |-> end_percent,
            drain_rate |-> drain_rate,
            weight |-> Int2F(1),
            is_latest |-> TRUE] >>]

\* Lines 274-316 for the most recent interval (start, end).
last_from_interval(d, start, end, time_diff, start_percent, end_percent) ==
    IF last_admits(time_diff, start_percent, end_percent)
    THEN last_estimate(d, start, end, time_diff, start_percent, end_percent,
                       rate_of(start_percent - end_percent, time_diff))
    ELSE [raised |-> NotRaised, time_left_minutes |-> None, confidence |-> Int2F(0),
          drain_rate |-> None,
          debug |-> <<"Invalid interval", time_diff, start_percent - end_percent>>,
          has_interval_details |-> TRUE, interval_details |-> << >>]

\* As last_from_intervals, taking the oldest interval of the list.
last_from_intervals_oldest(d, intervals) ==
    IF intervals = << >>
    THEN [raised |-> NotRaised, time_left_minutes |-> None, confidence |-> Int2F(0),
          drain_rate |-> None, debug |-> <<"No battery intervals found">>,
          has_interval_details |-> FALSE, interval_details |-> << >>]
    ELSE last_from_interval(d, intervals[1][1], intervals[1][2],
                            minutes_between(d, intervals[1][1], intervals[1][2]),
                            iloc(d, intervals[1][1]).percentage,
                            iloc(d, intervals[1][2]).percentage)

\* Lines 265-316 for the interval list after the fallback step.
last_from_intervals(d, intervals) ==
    IF intervals = << >>
    THEN [raised |-> NotRaised, time_left_minutes |-> None, confidence |-> Int2F(0),
          drain_rate |-> None, debug |-> <<"No battery intervals found">>,
          has_interval_details |-> FALSE, interval_details |-> << >>]
    ELSE last_from_interval(d, intervals[Len(intervals)][1], intervals[Len(intervals)][2],
                            minutes_between(d, intervals[Len(intervals)][1],
                                            intervals[Len(intervals)][2]),
                            iloc(d, intervals[Len(intervals)][1]).percentage,
                            iloc(d, intervals[Len(intervals)][2]).percentage)

estimate_time_left_last_interval(d) == last_from_intervals(d, last_intervals(d))

\* Lines 327-341 for the result of estimate_time_left_last_interval.
full_battery_last_from(last_interval_result) ==
    IF last_interval_result.drain_rate # None
       /\ FLt(Int2F(0), last_interval_result.drain_rate)
    THEN [raised |-> NotRaised,
          full_battery_time_minutes |-> FDiv(Int2F(100), last_interval_result.drain_rate),
          confidence |-> last_interval_result.confidence,
          drain_rate |-> last_interval_result.drain_rate,
          interval_details |-> last_interval_result.interval_details]
    ELSE [raised |-> NotRaised, full_battery_time_minutes |-> None,
          confidence |-> Int2F(0), drain_rate |-> None,
          interval_details |-> last_interval_result.interval_details]

estimate_full_battery_last_interval(d) ==
    full_battery_last_from(estimate_time_left_last_interval(d))

(***************************************************************************)
(* get_battery_estimations                                                 *)
(***************************************************************************)
\* As frame_after_call, for an estimator that also drops the oldest row of
\* the frame it was given.
frame_after_call_drops_row(d) ==
    IF Len(d) = 0 THEN d ELSE Tail(convert_timestamps(d))

\* The caller's frame after an estimator ran: lines 62-63 and 221-222 assign
\* the converted column to the frame they were given.
frame_after_call(d) == convert_timestamps(d)

\* data['timestamp'].iloc[-1].isoformat(): a text cell has no isoformat().
\* As report_timestamp, without the guard len(data) > 0.
report_timestamp_unguarded(d) ==
    IF Len(d) = 0 THEN <<"IndexError">>
    ELSE IF d[Len(d)].timestamp[1] = "datetime" THEN isoformat(d[Len(d)].timestamp)
    ELSE <<"AttributeError">>

\* On an empty frame the guard len(data) > 0 yields None.
report_timestamp(d) ==
    IF Len(d) = 0 THEN None
    ELSE IF d[Len(d)].timestamp[1] = "datetime" THEN isoformat(d[Len(d)].timestamp)
    ELSE <<"AttributeError">>

IsError(x) == x = <<"AttributeError">> \/ x = <<"IndexError">>

\* The first exception on the way through lines 350-365, if any.
first_raised(time_left_result, full_battery_result, time_left_last, full_battery_last, stamp) ==
    IF time_left_result.raised # NotRaised THEN time_left_result.raised
    ELSE IF full_battery_result.raised # NotRaised THEN full_battery_result.raised
    ELSE IF time_left_last.raised # NotRaised THEN time_left_last.raised
    ELSE IF full_battery_last.raised # NotRaised THEN full_battery_last.raised
    ELSE IF IsError(stamp) THEN stamp[1]
    ELSE NotRaised

\* As report_of, reading the current percentage from the first row.
report_of_first_sample(after, time_left_result, full_battery_result, time_left_last, full_battery_last, stamp) ==
    [raised |-> first_raised(time_left_result, full_battery_result, time_left_last,
                             full_battery_last, stamp),
     current_percentage |-> IF Len(after) > 0 THEN after[1].percentage ELSE 0,
     time_left |-> time_left_result,
     full_battery |-> full_battery_result,
     time_left_last_interval |-> time_left_last,
     full_battery_last_interval |-> full_battery_last,
     timestamp |-> stamp]

\* The report of lines 357-366; after is the frame the estimators left.
report_of(after, time_left_result, full_battery_result, time_left_last, full_battery_last, stamp) ==
    [raised |-> first_raised(time_left_result, full_battery_result, time_left_last,
                             full_battery_last, stamp),
     current_percentage |-> IF Len(after) > 0 THEN after[Len(after)].percentage ELSE 0,
     time_left |-> time_left_result,
     full_battery |-> full_battery_result,
     time_left_last_interval |-> time_left_last,
     full_battery_last_interval |-> full_battery_last,
     timestamp |-> stamp]

\* The four estimators run in turn (lines 350-355) on c, the frame with
\* converted timestamps; after is the frame as frame_after_call leaves it.
report_from(c, after) ==
    report_of(after,
              estimate_time_left_data_based(c),
              estimate_time_on_full_battery(c),
              estimate_time_left_last_interval(c),
              estimate_full_battery_last_interval(c),
              report_timestamp(after))

\* A call that pd.to_datetime ends with ValueError (lines 63 and 222): every
\* public function converts the column before it does anything else.
ValueError == [raised |-> "ValueError"]

get_battery_estimations(d) ==
    IF to_datetime_raises(d) THEN ValueError
    ELSE report_from(convert_timestamps(d), frame_after_call(d))

(***************************************************************************)
(* What the last call worked with (recorded for the properties)            *)
(***************************************************************************)
\* The weighted estimator's scan result and the entries it averaged.
trace_weighted(d, intervals) ==
    [intervals |-> intervals, used |-> weighted_used(d, intervals)]

TraceWeighted(d) == trace_weighted(d, weighted_intervals(d))

\* The last-interval estimator's scan result, whether it built the fallback
\* interval, and the interval it picked at line 274 (<< >> when none).
trace_last(scan, intervals) ==
    [scan |-> scan,
     fallback |-> scan = << >> /\ intervals # << >>,
     picked |-> IF intervals = << >> THEN << >> ELSE <<intervals[Len(intervals)]>>]

TraceLast(d) == trace_last(last_scan_intervals(d), last_intervals(d))

NotRun == << >>

\* What a call on the caller's frame returns and what it worked with.
on_frame(d, result) == IF to_datetime_raises(d) THEN ValueError ELSE result

traced(d, trace) == IF to_datetime_raises(d) THEN NotRun ELSE trace

(***************************************************************************)
(* Inputs                                                                  *)
(***************************************************************************)
\* What one sample reads: on battery at a percentage (tenths of a percent),
\* or plugged in.
OnBattery(percentages) == [percentage : percentages, power_plugged : {PyFalse}]

Plugged == {[percentage |-> 500, power_plugged |-> PyTrue]}

\* The input families.  A family fixes the minutes that may lie between one
\* logged sample and the next and what a sample may read:
\*   - plug interruptions: the gap tolerance itself or a data gap between
\*     samples, a 3.0 percent drop, flat and rising charge, plugged samples;
\*   - small drops: the same steps, drops of 0.3, 2.7 and 3.0 percent;
\*   - duplicate timestamps: steps of 0 and 1 minute and data gaps;
\*   - a clock set back: steps of -1 and 1 minute and data gaps;
\*   - a fast linear discharge: 100 and 90 percent, samples 4 minutes apart.
Families ==
    { [deltas |-> {5, 6}, readings |-> OnBattery({500, 470}) \cup Plugged],
      [deltas |-> {5, 6}, readings |-> OnBattery({500, 497, 470})],
      [deltas |-> {0, 1, 6}, readings |-> OnBattery({500, 470})],
      [deltas |-> {-1, 1, 6}, readings |-> OnBattery({500, 470})],
      [deltas |-> {4}, readings |-> OnBattery({1000, 900})] }

\* The frame whose first row reads `first` at minute 0 and whose row k + 1
\* follows row k by rest[k][1] minutes and reads rest[k][2]; kind says
\* whether the timestamp column holds text (as read from the CSV log) or
\* datetimes (parsed by the caller).
RECURSIVE Stamps(_, _)
Stamps(rest, k) == IF k = 0 THEN 0 ELSE Stamps(rest, k - 1) + rest[k][1]

Cell(kind, t) == IF kind = "datetime" THEN DtCell(t) ELSE StrCell(t)

Frame(kind, first, rest) ==
    [k \in 1..(Len(rest) + 1) |->
        IF k = 1
        THEN [timestamp |-> Cell(kind, 0), percentage |-> first.percentage,
              power_plugged |-> first.power_plugged]
        ELSE [timestamp |-> Cell(kind, Stamps(rest, k - 1)),
              percentage |-> rest[k - 1][2].percentage,
              power_plugged |-> rest[k - 1][2].power_plugged]]

\* Longer series, as the logger leaves them after hours of use.
Row(kind, t, percentage, plugged) ==
    [timestamp |-> Cell(kind, t), percentage |-> percentage, power_plugged |-> plugged]

\* On-battery samples every `step` minutes from minute t0 to minute t1, the
\* charge falling evenly from p0 to p1 (rounded down to a tenth).
Discharge(kind, step, t0, t1, p0, p1) ==
    [k \in 1..((t1 - t0) \div step + 1) |->
        Row(kind, t0 + (k - 1) * step,
            p0 - ((p0 - p1) * ((k - 1) * step)) \div (t1 - t0), PyFalse)]

\* A plug interruption: 100 to 95 percent over 30 minutes on battery,
\* plugged samples at the given minutes, 95 to 80 percent over 60 minutes
\* on battery again.
PlugInterruption(kind, step, plugged_at) ==
    Discharge(kind, step, 0, 30, 1000, 950)
        \o [k \in 1..Len(plugged_at) |-> Row(kind, plugged_at[k], 950, PyTrue)]
        \o Discharge(kind, step, 35, 95, 950, 800)

\* Many short sessions: session k is two on-battery samples 2 minutes apart,
\* 6 minutes after the session before it; the charge drops 3 percent over
\* the session when drops[k] and stays flat otherwise.
ManySessions(kind, drops) ==
    [r \in 1..(2 * Len(drops)) |->
        LET k == (r + 1) \div 2
        IN  IF r % 2 = 1
            THEN Row(kind, 8 * (k - 1), 500, PyFalse)
            ELSE Row(kind, 8 * (k - 1) + 2, IF drops[k] THEN 470 ELSE 500, PyFalse)]

\* Which sessions drop: the two oldest and the two newest as given, all
\* sessions between them alike.
SessionDrops(n, oldest, between, newest) ==
    [k \in 1..n |-> IF k <= 2 THEN oldest[k]
                    ELSE IF k > n - 2 THEN newest[k - (n - 2)]
                    ELSE between]

\* n on-battery samples 6 minutes apart, each `drop` tenths of a percent
\* below the one before.
SparseSamples(kind, n, drop) ==
    [k \in 1..n |-> Row(kind, 6 * (k - 1), 900 - drop * (k - 1), PyFalse)]

\* A session of more than two hours (30 percent lost) and, after a data gap
\* of 6 minutes, a session of 10 minutes (2 percent lost).
LongSession(kind, minutes) ==
    Discharge(kind, 5, 0, minutes, 1000, 700)
        \o Discharge(kind, 5, minutes + 6, minutes + 16, 700, 680)

\* n on-battery samples, each followed 2 minutes later by a plugged sample
\* and `drop` tenths of a percent below the on-battery sample before it.
Interleaved(kind, n, drop) ==
    [r \in 1..(2 * n) |->
        IF r % 2 = 1
        THEN Row(kind, 2 * (r - 1), 900 - drop * ((r - 1) \div 2), PyFalse)
        ELSE Row(kind, 2 * (r - 1), 900, PyTrue)]

LongSeries ==
    {LongSession(kind, minutes) :
        kind \in {"str_space", "datetime"}, minutes \in {120, 150}}
    \cup
    {Interleaved(kind, n, drop) :
        kind \in {"str_space", "datetime"}, n \in {9, 12}, drop \in {0, 3}}
    \cup
    {PlugInterruption(kind, step, plugged_at) :
        kind \in {"str_space", "datetime"}, step \in {3, 5},
        plugged_at \in {<<32>>, <<31, 34>>}}
    \cup
    {ManySessions(kind, SessionDrops(n, oldest, between, newest)) :
        kind \in {"str_space", "datetime"}, n \in {11, 12},
        oldest \in [1..2 -> BOOLEAN], between \in BOOLEAN, newest \in [1..2 -> BOOLEAN]}
    \cup
    {SparseSamples(kind, n, drop) :
        kind \in {"str_space", "datetime"}, n \in {10, 12}, drop \in {0, 3}}

NoCall == [fn |-> "none", val |-> None]

Init ==
    /\ \/ data = << >>
       \/ \E fam \in Families, n \in 1..MaxLen, kind \in {"str_space", "datetime"} :
            \E first \in fam.readings, rest \in [1..(n - 1) -> fam.deltas \X fam.readings] :
                data = Frame(kind, first, rest)
       \/ data \in LongSeries
    /\ ret = NoCall
    /\ ghost = [weighted |-> NotRun, last |-> NotRun]
    /\ calls = 0
    /\ logger = NoLogger
    /\ runner = NoRunner

\* Series with malformed rows.  A row whose power_plugged cell is None (the
\* flag could not be read), among on-battery rows 2 or 6 minutes apart.
NullRow == {[percentage |-> 500, power_plugged |-> None]}

NullFamily == [deltas |-> {2, 6}, readings |-> OnBattery({500, 470}) \cup NullRow]

\* Rows 2 minutes apart whose timestamp text may be garbled.
GarbledFamily == [deltas |-> {2}, readings |-> OnBattery({500, 470})]

\* The frame d with the timestamp text of the rows in S unparsable.
garbled(d, S) ==
    [k \in 1..Len(d) |->
        IF k \in S THEN [d[k] EXCEPT !.timestamp = BadCell(@[2])] ELSE d[k]]

InitInvalid ==
    /\ \/ \E n \in 1..MaxLen, kind \in {"str_space", "datetime"} :
            \E first \in NullFamily.readings,
               rest \in [1..(n - 1) -> NullFamily.deltas \X NullFamily.readings] :
                data = Frame(kind, first, rest)
       \/ \E n \in 1..MaxLen :
            \E first \in GarbledFamily.readings,
               rest \in [1..(n - 1) -> GarbledFamily.deltas \X GarbledFamily.readings],
               S \in (SUBSET (1..n)) \ {{}} :
                data = garbled(Frame("str_space", first, rest), S)
    /\ ret = NoCall
    /\ ghost = [weighted |-> NotRun, last |-> NotRun]
    /\ calls = 0
    /\ logger = NoLogger
    /\ runner = NoRunner

(***************************************************************************)
(* Operations: one call of a public function of the module on the frame    *)
(***************************************************************************)
\* calls counts the calls made on the frame: 0, 1, or 2 for two or more.
called_once_more == IF calls = 0 THEN 1 ELSE 2

CallTimeLeftDataBased ==
    /\ ret' = [fn |-> "estimate_time_left_data_based",
               val |-> on_frame(data, estimate_time_left_data_based(convert_timestamps(data)))]
    /\ ghost' = [weighted |-> traced(data, TraceWeighted(convert_timestamps(data))),
                 last |-> NotRun]
    /\ data' = frame_after_call(data)
    /\ calls' = called_once_more
    /\ UNCHANGED <<logger, runner>>

CallTimeOnFullBattery ==
    /\ ret' = [fn |-> "estimate_time_on_full_battery",
               val |-> on_frame(data, estimate_time_on_full_battery(convert_timestamps(data)))]
    /\ ghost' = [weighted |-> traced(data, TraceWeighted(convert_timestamps(data))),
                 last |-> NotRun]
    /\ data' = frame_after_call(data)
    /\ calls' = called_once_more
    /\ UNCHANGED <<logger, runner>>

CallTimeLeftLastInterval ==
    /\ ret' = [fn |-> "estimate_time_left_last_interval",
               val |-> on_frame(data, estimate_time_left_last_interval(convert_timestamps(data)))]
    /\ ghost' = [weighted |-> NotRun,
                 last |-> traced(data, TraceLast(convert_timestamps(data)))]
    /\ data' = frame_after_call(data)
    /\ calls' = called_once_more
    /\ UNCHANGED <<logger, runner>>

CallFullBatteryLastInterval ==
    /\ ret' = [fn |-> "estimate_full_battery_last_interval",
               val |-> on_frame(data, estimate_full_battery_last_interval(convert_timestamps(data)))]
    /\ ghost' = [weighted |-> NotRun,
                 last |-> traced(data, TraceLast(convert_timestamps(data)))]
    /\ data' = frame_after_call(data)
    /\ calls' = called_once_more
    /\ UNCHANGED <<logger, runner>>

CallGetBatteryEstimations ==
    /\ ret' = [fn |-> "get_battery_estimations", val |-> get_battery_estimations(data)]
    /\ ghost' = [weighted |-> traced(data, TraceWeighted(convert_timestamps(data))),
                 last |-> traced(data, TraceLast(convert_timestamps(data)))]
    /\ data' = frame_after_call(data)
    /\ calls' = called_once_more
    /\ UNCHANGED <<logger, runner>>

Next ==
    \/ CallTimeLeftDataBased
    \/ CallTimeOnFullBattery
    \/ CallTimeLeftLastInterval
    \/ CallFullBatteryLastInterval
    \/ CallGetBatteryEstimations

Spec == Init /\ [][Next]_vars

\* The same operations on series with malformed rows.
SpecInvalid == InitInvalid /\ [][Next]_vars

(***************************************************************************)
(* Properties                                                              *)
(***************************************************************************)
IsFacade == ret.fn = "get_battery_estimations"

\* The results of the last call, by estimator.
HasTimeLeft == ret.fn \in {"estimate_time_left_data_based", "get_battery_estimations"}
TimeLeft == IF IsFacade THEN ret.val.time_left ELSE ret.val

HasFullBattery == ret.fn \in {"estimate_time_on_full_battery", "get_battery_estimations"}
FullBattery == IF IsFacade THEN ret.val.full_battery ELSE ret.val

HasTimeLeftLast == ret.fn \in {"estimate_time_left_last_interval", "get_battery_estimations"}
TimeLeftLast == IF IsFacade THEN ret.val.time_left_last_interval ELSE ret.val

HasFullBatteryLast == ret.fn \in {"estimate_full_battery_last_interval", "get_battery_estimations"}
FullBatteryLast == IF IsFacade THEN ret.val.full_battery_last_interval ELSE ret.val

RanWeighted == ghost.weighted # NotRun
RanLast == ghost.last # NotRun

\* Facts about the frame of the current state (its rows are those the last
\* call worked on; only the form of the timestamp cells may differ).
OnBatteryAt(i) == iloc(data, i).power_plugged = PyFalse
GapAfter(i) == minutes_between(data, i, i + 1)
PercentAt(i) == iloc(data, i).percentage
Minutes(iv) == minutes_between(data, iv[1], iv[2])
Drop(iv) == PercentAt(iv[1]) - PercentAt(iv[2])
Pairs == 0..(Len(data) - 2)

\* C1: for a series of 0 or 1 samples get_battery_estimations returns a
\* report, without raising, whose weighted and last-interval results both
\* have time_left_minutes = None and confidence = 0.
C1_ShortSeriesNoEstimate ==
    (IsFacade /\ Len(data) <= 1) =>
        /\ ret.val.raised = NotRaised
        /\ ret.val.time_left.time_left_minutes = None
        /\ ret.val.time_left.confidence = Int2F(0)
        /\ ret.val.time_left_last_interval.time_left_minutes = None
        /\ ret.val.time_left_last_interval.confidence = Int2F(0)

C1_Witness == IsFacade /\ Len(data) = 1 /\ OnBatteryAt(0)

\* C2: a pair of neighbouring on-battery samples more than max_gap_minutes
\* apart is inside no interval of either scan; the run that ends at the
\* gap and the run that starts after it are separate intervals; and each
\* interval the loop of lines 102-125 looks at (the last 10 scanned) is
\* admitted or rejected on its own endpoints.
SplitsAt(intervals, i) ==
    /\ \A k \in 1..Len(intervals) : ~(intervals[k][1] <= i /\ i + 1 <= intervals[k][2])
    /\ (i >= 1 /\ OnBatteryAt(i - 1) /\ GapAfter(i - 1) <= 5)
          => \E k \in 1..Len(intervals) : intervals[k][2] = i
    /\ (i + 2 < Len(data) /\ OnBatteryAt(i + 2) /\ GapAfter(i + 1) <= 5)
          => \E k \in 1..Len(intervals) : intervals[k][1] = i + 1

IsGapPair(i) == OnBatteryAt(i) /\ OnBatteryAt(i + 1) /\ GapAfter(i) > 5

LastRate == IF IsFacade THEN ret.val.time_left_last_interval.drain_rate
            ELSE ret.val.drain_rate

\* The interval the last-interval estimator picked at line 274.
Picked == ghost.last.picked[1]

UsedInterval(u) == <<ghost.weighted.used[u].start, ghost.weighted.used[u].end>>

UsedIndices == 1..Len(ghost.weighted.used)

\* Every sample of the interval is on battery and every adjacent pair of
\* its samples is at most max_gap_minutes apart.
Contiguous(iv) ==
    /\ \A i \in iv[1]..iv[2] : OnBatteryAt(i)
    /\ \A i \in iv[1]..(iv[2] - 1) : GapAfter(i) <= 5

\* C3 as stated: every interval a drain rate is computed from, the one the
\* last-interval estimator falls back to included, is contiguous.
C3_EveryIntervalContiguous ==
    /\ RanWeighted => \A u \in UsedIndices : Contiguous(UsedInterval(u))
    /\ (RanLast /\ LastRate # None) => Contiguous(Picked)

\* C3 as amended: every interval the weighted estimator computes a rate
\* from, and the interval the last-interval estimator uses when its scan
\* found one, is contiguous; of the synthetic fallback interval only the two
\* end samples are known to be on battery.
C3_ScanIntervalsContiguous ==
    /\ RanWeighted => \A u \in UsedIndices : Contiguous(UsedInterval(u))
    /\ (RanLast /\ LastRate # None /\ ~ghost.last.fallback) => Contiguous(Picked)
    /\ (RanLast /\ LastRate # None /\ ghost.last.fallback) =>
          (OnBatteryAt(Picked[1]) /\ OnBatteryAt(Picked[2]))

\* Both estimators computed a rate from a scanned interval of three samples.
C3_Witness ==
    /\ RanWeighted
    /\ RanLast
    /\ LastRate # None
    /\ ~ghost.last.fallback
    /\ Picked[2] - Picked[1] = 2
    /\ \E u \in UsedIndices : UsedInterval(u) = Picked

\* C4: no interval whose end percentage is not below its start percentage
\* contributes to the weighted rate or gives the last-interval rate.
C4_MonotonicFilter ==
    /\ RanWeighted => \A u \in UsedIndices : Drop(UsedInterval(u)) > 0
    /\ (RanWeighted /\ HasTimeLeft) => TimeLeft.intervals_used = Len(ghost.weighted.used)
    /\ (RanLast /\ LastRate # None) => Drop(Picked) > 0

\* A flat or rising interval was scanned and another interval contributed.
C4_Witness ==
    /\ IsFacade
    /\ \E k \in 1..Len(ghost.weighted.intervals) : Drop(ghost.weighted.intervals[k]) <= 0
    /\ ghost.weighted.used # << >>
    /\ Drop(Picked) <= 0

\* C5: of two contributing intervals of equal duration the later one never
\* has the smaller combined weight.
C5_RecencyMonotone ==
    RanWeighted =>
        \A u \in UsedIndices : \A v \in UsedIndices :
            (u < v /\ ghost.weighted.used[u].duration = ghost.weighted.used[v].duration)
                => FLe(ghost.weighted.used[u].weight, ghost.weighted.used[v].weight)

C5_Witness ==
    /\ RanWeighted
    /\ Len(ghost.weighted.used) = 2
    /\ ghost.weighted.used[1].duration = ghost.weighted.used[2].duration

C7_FrameUnchanged == [][data' = data]_vars

\* A confidence is a number between 0 and 1.
Conf01(c) == c # None /\ FLe(Int2F(0), c) /\ FLe(c, Int2F(1))

\* C8: every confidence in a result lies in [0, 1].
C8_ConfidenceInUnitInterval ==
    /\ HasTimeLeft => Conf01(TimeLeft.confidence)
    /\ HasFullBattery => Conf01(FullBattery.confidence)
    /\ HasTimeLeftLast => Conf01(TimeLeftLast.confidence)
    /\ HasFullBatteryLast => Conf01(FullBatteryLast.confidence)

\* A report with two contributing intervals and a last-interval estimate
\* whose drop is above the 2 percent at which its score is capped.
C8_Witness ==
    /\ IsFacade
    /\ ret.val.time_left.intervals_used = 2
    /\ FLt(Int2F(0), ret.val.time_left.confidence)
    /\ FLt(ret.val.time_left.confidence, Int2F(1))
    /\ LastRate # None
    /\ Drop(Picked) > 20

\* C9: an estimator for which no interval passes the admission test returns
\* a result with rate None, minutes None and confidence 0, and raises nothing.
NoEstimateWeighted(r, minutes) ==
    /\ r.raised = NotRaised
    /\ r.average_drain_rate = None
    /\ minutes = None
    /\ r.confidence = Int2F(0)

NoEstimateLast(r, minutes) ==
    /\ r.raised = NotRaised
    /\ r.drain_rate = None
    /\ minutes = None
    /\ r.confidence = Int2F(0)

LastPasses == ghost.last.picked # << >> /\ Minutes(Picked) >= 1 /\ Drop(Picked) >= 1

C9_InsufficientData ==
    /\ (RanWeighted /\ ghost.weighted.used = << >>) =>
        /\ HasTimeLeft => NoEstimateWeighted(TimeLeft, TimeLeft.time_left_minutes)
        /\ HasFullBattery =>
              NoEstimateWeighted(FullBattery, FullBattery.full_battery_time_minutes)
    /\ (RanLast /\ ~LastPasses) =>
        /\ HasTimeLeftLast => NoEstimateLast(TimeLeftLast, TimeLeftLast.time_left_minutes)
        /\ HasFullBatteryLast =>
              NoEstimateLast(FullBatteryLast, FullBatteryLast.full_battery_time_minutes)
    /\ (IsFacade /\ ghost.weighted.used = << >> /\ ~LastPasses) =>
          ret.val.raised = NotRaised

\* An interval was scanned, and it passes neither estimator's test.
C9_Witness ==
    /\ IsFacade
    /\ ghost.weighted.intervals # << >>
    /\ ghost.weighted.used = << >>
    /\ ghost.last.picked # << >>
    /\ ~LastPasses

\* C10: every divisor is positive, every rate that is not None is positive,
\* every minutes-left that is not None is >= 0, and an interval of zero
\* duration never contributes.
Positive(x) == x # None /\ FLt(Int2F(0), x)

NonNegative(x) == x # None /\ FLe(Int2F(0), x)

C10_PositiveDivisors ==
    /\ RanWeighted =>
        /\ \A u \in UsedIndices :
              /\ ghost.weighted.used[u].duration > 0
              /\ Minutes(UsedInterval(u)) > 0
              /\ Positive(ghost.weighted.used[u].drain_rate)
              /\ Positive(ghost.weighted.used[u].weight)
        /\ ghost.weighted.used # << >> =>
              Positive(FSum([u \in UsedIndices |-> ghost.weighted.used[u].weight]))
    /\ (HasTimeLeft /\ TimeLeft.raised = NotRaised) =>
        /\ TimeLeft.average_drain_rate # None => Positive(TimeLeft.average_drain_rate)
        /\ TimeLeft.time_left_minutes # None => NonNegative(TimeLeft.time_left_minutes)
    /\ (HasFullBattery /\ FullBattery.raised = NotRaised) =>
        /\ FullBattery.average_drain_rate # None => Positive(FullBattery.average_drain_rate)
        /\ FullBattery.full_battery_time_minutes # None =>
              Positive(FullBattery.full_battery_time_minutes)
    /\ HasTimeLeftLast =>
        /\ TimeLeftLast.drain_rate # None =>
              (Positive(TimeLeftLast.drain_rate) /\ Minutes(Picked) > 0)
        /\ TimeLeftLast.time_left_minutes # None => NonNegative(TimeLeftLast.time_left_minutes)
    /\ HasFullBatteryLast =>
        /\ FullBatteryLast.drain_rate # None => Positive(FullBatteryLast.drain_rate)
        /\ FullBatteryLast.full_battery_time_minutes # None =>
              Positive(FullBatteryLast.full_battery_time_minutes)

\* A run with duplicate timestamps and a drop in charge was scanned and left
\* out, and the last-interval estimator used a later interval.
C10_Witness ==
    /\ IsFacade
    /\ \E k \in 1..Len(ghost.weighted.intervals) :
          /\ Minutes(ghost.weighted.intervals[k]) = 0
          /\ Drop(ghost.weighted.intervals[k]) > 0
    /\ LastRate # None

\* The interval list of the last-interval estimator after the fallback step.
LastList == IF ghost.last.scan # << >> THEN ghost.last.scan ELSE ghost.last.picked

\* The thresholds of the last-interval estimator: at least 1 minute and a
\* drop of at least 0.1 percent.
Qualifies(iv) == Minutes(iv) >= 1 /\ Drop(iv) >= 1

\* Percent per minute lost over the interval.
RateOf(iv) == Frac(Drop(iv), 10 * Minutes(iv))

\* C11 as stated: whenever some interval of the list satisfies the
\* thresholds, the last-interval estimator returns the rate of the latest
\* interval that does.
C11_LatestQualifyingInterval ==
    RanLast =>
        \A k \in 1..Len(LastList) :
            (/\ Qualifies(LastList[k])
             /\ \A j \in (k + 1)..Len(LastList) : ~Qualifies(LastList[j]))
                => LastRate = RateOf(LastList[k])

\* C11 as amended: the last-interval estimator looks at the latest interval
\* of its list only; it returns that interval's rate when the interval
\* satisfies the thresholds and no estimate otherwise, whatever the earlier
\* intervals are.
C11_LatestIntervalOnly ==
    RanLast =>
        IF LastList = << >> THEN LastRate = None
        ELSE /\ Picked = LastList[Len(LastList)]
             /\ LastRate = IF Qualifies(Picked) THEN RateOf(Picked) ELSE None

\* An earlier interval satisfies the thresholds, the latest one does not.
C11_Witness ==
    /\ RanLast
    /\ Len(ghost.last.scan) = 2
    /\ Qualifies(ghost.last.scan[1])
    /\ ~Qualifies(ghost.last.scan[2])
    /\ LastRate = None

\* Scenario D: at least two samples, all on battery, every adjacent pair
\* more than max_gap_minutes apart.
SparseSeries ==
    /\ Len(data) >= 2
    /\ \A i \in 0..(Len(data) - 1) : OnBatteryAt(i)
    /\ \A i \in Pairs : GapAfter(i) > 5

\* The synthetic interval over the last up to 10 samples of such a series.
SyntheticInterval == <<IF Len(data) > 10 THEN Len(data) - 10 ELSE 0, Len(data) - 1>>

\* The weighted estimator found no interval, built none and has no estimate.
WeightedHasNothing ==
    /\ ghost.weighted.intervals = << >>
    /\ ghost.weighted.used = << >>
    /\ HasTimeLeft => NoEstimateWeighted(TimeLeft, TimeLeft.time_left_minutes)
    /\ HasFullBattery => NoEstimateWeighted(FullBattery, FullBattery.full_battery_time_minutes)

\* C12 as stated: on a sparse series the weighted estimator has no estimate
\* and no synthetic interval, and the last-interval estimator returns the
\* rate of the synthetic interval.
C12_SparseSeriesEstimate ==
    SparseSeries =>
        /\ RanWeighted => WeightedHasNothing
        /\ RanLast =>
            /\ ghost.last.fallback
            /\ Picked = SyntheticInterval
            /\ LastRate = RateOf(Picked)

\* C12 as amended: the last-interval estimator falls back to the synthetic
\* interval and returns that interval's rate when the interval satisfies its
\* thresholds; when the charge did not drop over it, it returns no estimate.
C12_SparseSeriesFallback ==
    SparseSeries =>
        /\ RanWeighted => WeightedHasNothing
        /\ RanLast =>
            /\ ghost.last.fallback
            /\ Picked = SyntheticInterval
            /\ LastRate = IF Qualifies(Picked) THEN RateOf(Picked) ELSE None

\* Three sparse samples with a drop in charge, seen by both estimators.
C12_Witness ==
    /\ SparseSeries
    /\ Len(data) = 3
    /\ IsFacade
    /\ ret.val.time_left.time_left_minutes = None
    /\ LastRate # None
    /\ LastRate = RateOf(<<0, 2>>)

\* The keys of the one interval summary of a last-interval estimate
\* (lines 297-307), none of which says how the interval was found.
SummaryKeys ==
    {"start_time", "end_time", "duration_minutes", "data_points", "start_percentage",
     "end_percentage", "drain_rate", "weight", "is_latest"}

\* The diagnostics of an estimate carry a mark of their own: a key beside
\* the usual ones in the interval summary, or a debug text of another form.
SummaryTagged(details) == \E k \in 1..Len(details) : DOMAIN details[k] # SummaryKeys

Tagged(r) == SummaryTagged(r.interval_details) \/ r.debug[1] # "Interval"

\* C13 as stated: a last-interval estimate carries the degenerate mark in its
\* diagnostics exactly when it was computed from the synthetic interval.
C13_FallbackTagged ==
    (RanLast /\ LastRate # None) =>
        /\ HasTimeLeftLast => (Tagged(TimeLeftLast) <=> ghost.last.fallback)
        /\ HasFullBatteryLast =>
              (SummaryTagged(FullBatteryLast.interval_details) <=> ghost.last.fallback)

\* The rows of the frame that are valid samples: the flag is a boolean and
\* the timestamp text parses.
ValidRow(r) == r.power_plugged # None /\ r.timestamp[1] # "str_bad"

ValidRows == convert_rows(SelectSeq(data, ValidRow))

HasNullRow == \E k \in 1..Len(data) : data[k].power_plugged = None

HasGarbledRow == \E k \in 1..Len(data) : data[k].timestamp[1] = "str_bad"

\* The intervals of a frame by the minutes of their first and last sample.
TimesOf(d, intervals) ==
    [k \in 1..Len(intervals) |->
        <<iloc(d, intervals[k][1]).timestamp[2], iloc(d, intervals[k][2]).timestamp[2]>>]

\* The report says of both estimators what a report on the frame d says.
SameEstimates(report, d) ==
    /\ report.time_left = estimate_time_left_data_based(d)
    /\ report.full_battery = estimate_time_on_full_battery(d)
    /\ report.time_left_last_interval.drain_rate = estimate_time_left_last_interval(d).drain_rate
    /\ report.time_left_last_interval.time_left_minutes
          = estimate_time_left_last_interval(d).time_left_minutes
    /\ report.time_left_last_interval.confidence
          = estimate_time_left_last_interval(d).confidence
    /\ report.full_battery_last_interval.full_battery_time_minutes
          = estimate_full_battery_last_interval(d).full_battery_time_minutes

\* C14 as stated: for a series with a row whose power_plugged is None, no
\* error is raised and the intervals and both estimates are those of the
\* series without that row.
C14_NullRowDropped ==
    (IsFacade /\ HasNullRow) =>
        /\ ret.val.raised = NotRaised
        /\ TimesOf(data, ghost.weighted.intervals) = TimesOf(ValidRows, weighted_intervals(ValidRows))
        /\ TimesOf(data, ghost.last.scan) = TimesOf(ValidRows, last_scan_intervals(ValidRows))
        /\ SameEstimates(ret.val, ValidRows)

\* C15 as stated: for a series with a row whose timestamp does not parse,
\* the estimator does not raise and returns the report of the valid rows.
C15_GarbledRowSkipped ==
    (IsFacade /\ HasGarbledRow) =>
        /\ ret.val.raised = NotRaised
        /\ SameEstimates(ret.val, ValidRows)

\* The confidence of an estimate from one interval of the given minutes:
\* 0.4 * (1/5) + 0.3 * min(minutes/60, 1) + 0.3 * 0.5.
SingleIntervalConfidence(minutes) ==
    FAdd(FAdd(Frac(2, 25), FMul(Frac(3, 10), FMin(Frac(minutes, 60), Int2F(1)))),
         Frac(3, 20))

\* The percentage of the last sample, in percent.
CurrentPercent == Frac(PercentAt(Len(data) - 1), 10)

\* Scenario A: 100 percent at minute 0, 90 percent at minute 4, on battery.
IsScenarioA ==
    /\ Len(data) = 2
    /\ OnBatteryAt(0) /\ OnBatteryAt(1)
    /\ PercentAt(0) = 1000 /\ PercentAt(1) = 900
    /\ GapAfter(0) = 4

\* C16: when exactly one interval passes the weighted admission test, the
\* weighted rate is that interval's drop over its minutes, the confidence
\* is the one a consistency score of 0.5 gives, and the time left is the
\* current percentage over the rate; for scenario A this is one interval
\* with 2.5 percent per minute.
C16_SingleInterval ==
    /\ (RanWeighted /\ Len(ghost.weighted.used) = 1) =>
        /\ HasTimeLeft =>
            /\ TimeLeft.intervals_used = 1
            /\ TimeLeft.average_drain_rate = RateOf(UsedInterval(1))
            /\ TimeLeft.confidence = SingleIntervalConfidence(Minutes(UsedInterval(1)))
            /\ TimeLeft.time_left_minutes = FDiv(CurrentPercent, RateOf(UsedInterval(1)))
        /\ HasFullBattery =>
            /\ FullBattery.average_drain_rate = RateOf(UsedInterval(1))
            /\ FullBattery.confidence = SingleIntervalConfidence(Minutes(UsedInterval(1)))
    /\ (RanWeighted /\ IsScenarioA) =>
        /\ ghost.weighted.intervals = << <<0, 1>> >>
        /\ Len(ghost.weighted.used) = 1
        /\ ghost.weighted.used[1].drain_rate = Frac(5, 2)
        /\ HasTimeLeft => TimeLeft.time_left_minutes = Int2F(36)

\* Scenario A went through get_battery_estimations.
C16_Witness ==
    /\ IsFacade
    /\ IsScenarioA
    /\ ret.val.time_left.average_drain_rate = Frac(5, 2)
    /\ ret.val.time_left.confidence = Frac(1, 4)

\* Scenario B: the plug-interruption series, sampled every 3 or 5 minutes.
IsScenarioB ==
    data \in {PlugInterruption("datetime", step, plugged_at) :
                 step \in {3, 5}, plugged_at \in {<<32>>, <<31, 34>>}}

\* min(total_duration / 60, 1) for the intervals that contributed.
DurationScore ==
    FMin(FDiv(FSum([u \in UsedIndices |-> Int2F(ghost.weighted.used[u].duration)]),
              Int2F(60)),
         Int2F(1))

\* C17: for scenario B the scan yields exactly two intervals (5 percent in
\* 30 minutes, 15 percent in 60 minutes), the weighted rate lies strictly
\* between their rates and strictly closer to the later one, and the
\* duration score is 1: the confidence is 0.4 * 2/5 + 0.3 * 1 + 0.3 * c with
\* c = 1 - (17/7200) / (7/30) the consistency of the rates 1/6 and 1/4
\* around 7/30.
C17_PlugInterruption ==
    (RanWeighted /\ IsScenarioB) =>
        /\ Len(ghost.weighted.intervals) = 2
        /\ Len(ghost.weighted.used) = 2
        /\ ghost.weighted.used[1].drain_rate = Frac(1, 6)
        /\ ghost.weighted.used[2].drain_rate = Frac(1, 4)
        /\ DurationScore = Int2F(1)
        /\ HasTimeLeft =>
            /\ FLt(Frac(1, 6), TimeLeft.average_drain_rate)
            /\ FLt(TimeLeft.average_drain_rate, Frac(1, 4))
            /\ FLt(FSub(Frac(1, 4), TimeLeft.average_drain_rate),
                   FSub(TimeLeft.average_drain_rate, Frac(1, 6)))
            /\ TimeLeft.confidence = Frac(4239, 5600)
        /\ HasFullBattery =>
            /\ FLt(Frac(1, 6), FullBattery.average_drain_rate)
            /\ FLt(FullBattery.average_drain_rate, Frac(1, 4))
            /\ FLt(FSub(Frac(1, 4), FullBattery.average_drain_rate),
                   FSub(FullBattery.average_drain_rate, Frac(1, 6)))

\* Scenario B, sampled every 5 minutes, went through get_battery_estimations.
C17_Witness ==
    /\ IsFacade
    /\ data = PlugInterruption("datetime", 5, <<32>>)
    /\ ret.val.time_left.average_drain_rate = Frac(7, 30)
    /\ ret.val.time_left.intervals_used = 2

\* minutes = percent / rate, and None when there is no rate.
DerivedFrom(rate, percent, minutes) ==
    IF rate = None THEN minutes = None
    ELSE Positive(rate) /\ minutes = FDiv(percent, rate)

\* C18: an estimator with a rate r reports time left = (percentage of the
\* last sample) / r and full-battery minutes = 100 / r, and None for both
\* without a rate; in one report the two results of an estimator carry the
\* same rate and confidence, and the report's current percentage and
\* timestamp are those of the last sample.
C18_DerivedOutputs ==
    /\ (HasTimeLeft /\ RanWeighted) =>
        /\ TimeLeft.average_drain_rate # None <=> ghost.weighted.used # << >>
        /\ DerivedFrom(TimeLeft.average_drain_rate, CurrentPercent, TimeLeft.time_left_minutes)
    /\ (HasFullBattery /\ RanWeighted) =>
        /\ FullBattery.average_drain_rate # None <=> ghost.weighted.used # << >>
        /\ DerivedFrom(FullBattery.average_drain_rate, Int2F(100),
                       FullBattery.full_battery_time_minutes)
    /\ (HasTimeLeftLast /\ RanLast) =>
          DerivedFrom(TimeLeftLast.drain_rate, CurrentPercent, TimeLeftLast.time_left_minutes)
    /\ (HasFullBatteryLast /\ RanLast) =>
          DerivedFrom(FullBatteryLast.drain_rate, Int2F(100),
                      FullBatteryLast.full_battery_time_minutes)
    /\ IsFacade =>
        /\ ret.val.time_left.average_drain_rate = ret.val.full_battery.average_drain_rate
        /\ ret.val.time_left.confidence = ret.val.full_battery.confidence
        /\ ret.val.time_left_last_interval.drain_rate
              = ret.val.full_battery_last_interval.drain_rate
        /\ ret.val.time_left_last_interval.confidence
              = ret.val.full_battery_last_interval.confidence
        /\ Len(data) > 0 =>
            /\ ret.val.current_percentage = PercentAt(Len(data) - 1)
            /\ ret.val.timestamp = IsoCell(iloc(data, Len(data) - 1).timestamp[2])

\* A report with both estimates on a series whose charge changed between the
\* first and the last sample, and whose two estimators differ in rate.
C18_Witness ==
    /\ IsFacade
    /\ Len(data) >= 3
    /\ PercentAt(0) # PercentAt(Len(data) - 1)
    /\ ret.val.time_left.time_left_minutes # None
    /\ ret.val.full_battery_last_interval.full_battery_time_minutes # None
    /\ ret.val.time_left.average_drain_rate # ret.val.time_left_last_interval.drain_rate

\* Samples i and i + 1 are both on battery and at most 5 minutes apart.
GoodPair(i) == OnBatteryAt(i) /\ OnBatteryAt(i + 1) /\ GapAfter(i) <= 5

\* The list holds exactly the maximal runs of good pairs, oldest first.
MaximalRuns(intervals) ==
    /\ \A i \in Pairs :
          GoodPair(i) <=> \E k \in 1..Len(intervals) :
                              intervals[k][1] <= i /\ i + 1 <= intervals[k][2]
    /\ \A k \in 1..Len(intervals) :
          /\ intervals[k][2] > intervals[k][1]
          /\ intervals[k][1] >= 0
          /\ intervals[k][2] <= Len(data) - 1
          /\ intervals[k][1] > 0 => ~GoodPair(intervals[k][1] - 1)
          /\ intervals[k][2] < Len(data) - 1 => ~GoodPair(intervals[k][2])
    /\ \A k \in 1..(Len(intervals) - 1) : intervals[k][2] < intervals[k + 1][1]
    /\ (Len(data) >= 2 /\ GoodPair(Len(data) - 2)) =>
          (intervals # << >> /\ intervals[Len(intervals)][2] = Len(data) - 1)

\* C19: the scan yields exactly the maximal contiguous on-battery runs: a
\* pair of neighbours is inside an interval iff both are on battery and at
\* most max_gap_minutes apart (5 minutes do not split), no interval can be
\* extended at either end, intervals are ascending and disjoint with
\* end_index > start_index, and a run open at the last sample ends there.
C19_MaximalRuns ==
    /\ RanWeighted => MaximalRuns(ghost.weighted.intervals)
    /\ RanLast => MaximalRuns(ghost.last.scan)

\* Two samples exactly 5 minutes apart in one interval, a data gap after it,
\* and a second run that is still open at the last sample.
C19_Witness ==
    /\ RanWeighted
    /\ Len(data) = 4
    /\ GapAfter(0) = 5
    /\ IsGapPair(1)
    /\ ghost.weighted.intervals = << <<0, 1>>, <<2, 3>> >>

\* The admission test of the weighted estimator: at least 2 minutes and a
\* drop of at least 0.5 percent.
Passes(iv) == Minutes(iv) >= 2 /\ Drop(iv) >= 5

\* The last n elements of a sequence (all of them when it has fewer).
LastOf(s, n) == IF Len(s) > n THEN SubSeq(s, Len(s) - n + 1, Len(s)) ELSE s

\* The intervals that contributed to the weighted estimate, oldest first.
Contributing == [u \in UsedIndices |-> UsedInterval(u)]

WeightedEstimates ==
    /\ HasTimeLeft => TimeLeft.average_drain_rate # None
    /\ HasFullBattery => FullBattery.average_drain_rate # None

\* C20 as stated: the contributing intervals are the 10 most recent of the
\* intervals of the whole series that pass the admission test, and there is
\* an estimate whenever some interval of the series passes.
C20_FilterThenTruncate ==
    RanWeighted =>
        /\ Contributing = LastOf(SelectSeq(ghost.weighted.intervals, Passes), 10)
        /\ SelectSeq(ghost.weighted.intervals, Passes) # << >> => WeightedEstimates

\* C20 as amended: the contributing intervals are those of the 10 most
\* recent intervals of the series that pass the admission test, and there
\* is an estimate exactly when one of these 10 passes.
C20_TruncateThenFilter ==
    RanWeighted =>
        /\ Contributing = SelectSeq(LastOf(ghost.weighted.intervals, 10), Passes)
        /\ IF SelectSeq(LastOf(ghost.weighted.intervals, 10), Passes) # << >>
           THEN WeightedEstimates
           ELSE /\ HasTimeLeft => TimeLeft.average_drain_rate = None
                /\ HasFullBattery => FullBattery.average_drain_rate = None

\* Twelve intervals: the oldest passes and does not contribute, and of the
\* 10 most recent some pass and some do not.
C20_Witness ==
    /\ RanWeighted
    /\ Len(ghost.weighted.intervals) = 12
    /\ Passes(ghost.weighted.intervals[1])
    /\ Len(ghost.weighted.used) \in 1..9
    /\ UsedInterval(1) # ghost.weighted.intervals[1]

\* min(minutes, 120)
CappedMinutes(minutes) == IF minutes < 120 THEN minutes ELSE 120

\* The 0-based position of the interval among the last 10 scanned intervals.
PositionOf(iv) ==
    CHOOSE p \in 0..9 :
        /\ p + 1 <= Len(LastOf(ghost.weighted.intervals, 10))
        /\ LastOf(ghost.weighted.intervals, 10)[p + 1] = iv

\* C21 as stated: the u-th contributing interval (u = 1 for the oldest) has
\* weight min(duration, 120) * 2^(u - 1).
C21_WeightByContributingPosition ==
    RanWeighted =>
        \A u \in UsedIndices :
            ghost.weighted.used[u].weight
                = Int2F(CappedMinutes(Minutes(UsedInterval(u))) * Pow2(u - 1))

\* C21 as amended: a contributing interval has weight min(duration, 120) *
\* 2^p with p its position among the (at most 10) most recent scanned
\* intervals, whether or not the intervals before it passed the admission
\* test; so each later contributing interval has at least twice the
\* multiplier of the one before it.
C21_WeightByRetainedPosition ==
    RanWeighted =>
        /\ \A u \in UsedIndices :
              ghost.weighted.used[u].weight
                  = Int2F(CappedMinutes(Minutes(UsedInterval(u)))
                          * Pow2(PositionOf(UsedInterval(u))))
        /\ \A u \in UsedIndices :
              u > 1 => ghost.weighted.used[u].recency >= 2 * ghost.weighted.used[u - 1].recency

\* A session of 150 minutes contributes with the capped weight, before a
\* session of 10 minutes with twice the multiplier.
C21_Witness ==
    /\ RanWeighted
    /\ Len(ghost.weighted.used) = 2
    /\ Minutes(UsedInterval(1)) = 150
    /\ ghost.weighted.used[1].weight = Int2F(120)
    /\ ghost.weighted.used[2].weight = Int2F(20)

\* The rate the weighted estimator reported (None when it has none).
WeightedRate == IF HasTimeLeft THEN TimeLeft.average_drain_rate
                ELSE FullBattery.average_drain_rate

\* sum(rate * weight) / sum(weight) over the contributing intervals, each
\* rate taken from the samples at the interval's ends.
ExpectedAverage ==
    FDiv(FSum([u \in UsedIndices |->
                  FMul(RateOf(UsedInterval(u)), ghost.weighted.used[u].weight)]),
         FSum([u \in UsedIndices |-> ghost.weighted.used[u].weight]))

WeightedConfidence == IF HasTimeLeft THEN TimeLeft.confidence ELSE FullBattery.confidence

\* min(count / 5, 1) over the contributing intervals.
IntervalScore == FMin(Frac(Len(ghost.weighted.used), 5), Int2F(1))

\* The squared distance of the interval's rate from the weighted mean rate.
SquaredDeviation(iv) ==
    FMul(FSub(RateOf(iv), WeightedRate), FSub(RateOf(iv), WeightedRate))

\* V: the population variance of the contributing rates around the mean.
RateVariance ==
    FDiv(FSum([u \in UsedIndices |-> SquaredDeviation(UsedInterval(u))]),
         Int2F(Len(ghost.weighted.used)))

\* 1 - min(V / m, 1) for two or more contributors, 0.5 for one.
ConsistencyScore ==
    IF Len(ghost.weighted.used) > 1
    THEN FSub(Int2F(1), FMin(FDiv(RateVariance, WeightedRate), Int2F(1)))
    ELSE Frac(1, 2)

\* The total duration score over the minutes between the end samples of
\* the contributing intervals.
TotalDurationScore ==
    FMin(Frac(FSum([u \in UsedIndices |-> Int2F(Minutes(UsedInterval(u)))])[1], 60),
         Int2F(1))

\* C23: the weighted confidence is 0.4 * min(count/5, 1) + 0.3 *
\* min(total_duration/60, 1) + 0.3 * consistency_score, count and duration
\* taken over the contributing intervals, and for two or more of them
\* consistency_score = 1 - min(V / m, 1).
C23_WeightedConfidence ==
    (RanWeighted /\ ghost.weighted.used # << >>) =>
        WeightedConfidence
            = FAdd(FAdd(FMul(Frac(4, 10), IntervalScore),
                        FMul(Frac(3, 10), TotalDurationScore)),
                   FMul(Frac(3, 10), ConsistencyScore))

\* Two contributors with different rates, less than an hour in total.
C23_Witness ==
    /\ RanWeighted
    /\ Len(ghost.weighted.used) = 2
    /\ RateOf(UsedInterval(1)) # RateOf(UsedInterval(2))
    /\ FLt(TotalDurationScore, Int2F(1))
    /\ FLt(ConsistencyScore, Int2F(1))
    /\ FLt(Int2F(0), ConsistencyScore)

\* The confidence the last-interval estimator reported.
LastConfidence == IF IsFacade THEN ret.val.time_left_last_interval.confidence
                  ELSE ret.val.confidence

\* The average of min(minutes / 15, 1) and min(drop_percent / 2, 1).
ExpectedLastConfidence(iv) ==
    FDiv(FAdd(FMin(Frac(Minutes(iv), 15), Int2F(1)), FMin(Frac(Drop(iv), 20), Int2F(1))),
         Int2F(2))

\* C24: a last-interval estimate has as confidence the average of
\* min(duration_minutes/15, 1) and min(drop_percent/2, 1) of the interval it
\* used, which is positive; the confidence is 0 exactly when there is no
\* estimate.
C24_LastConfidence ==
    RanLast =>
        /\ LastRate # None =>
            /\ LastConfidence = ExpectedLastConfidence(Picked)
            /\ Positive(LastConfidence)
        /\ LastRate = None <=> LastConfidence = Int2F(0)
        /\ IsFacade =>
              ret.val.full_battery_last_interval.confidence = LastConfidence

\* An estimate from 5 minutes and a drop of 0.3 percent: both scores are
\* below their caps.
C24_Witness ==
    /\ RanLast
    /\ LastRate # None
    /\ Minutes(Picked) = 5
    /\ Drop(Picked) = 3
    /\ LastConfidence = Frac(29, 120)

\* The positions of the on-battery samples of the series.
OnBatteryIndices == {i \in 0..(Len(data) - 1) : OnBatteryAt(i)}

\* How many on-battery samples lie at position i or later.
OnBatteryFrom(i) == Cardinality({j \in OnBatteryIndices : j >= i})

\* C25: the last-interval estimator builds a synthetic interval iff the scan
\* found no interval and the series has at least 2 on-battery samples; it
\* runs from the 10th-from-last on-battery sample (the first when there are
\* fewer than 10) to the last on-battery sample and goes through the same
\* thresholds as a scanned interval.
C25_FallbackConstruction ==
    RanLast =>
        /\ ghost.last.fallback <=>
              (ghost.last.scan = << >> /\ Cardinality(OnBatteryIndices) >= 2)
        /\ ghost.last.fallback =>
            /\ Picked[1] \in OnBatteryIndices
            /\ Picked[2] \in OnBatteryIndices
            /\ OnBatteryFrom(Picked[2]) = 1
            /\ OnBatteryFrom(Picked[1])
                  = IF Cardinality(OnBatteryIndices) < 10
                    THEN Cardinality(OnBatteryIndices) ELSE 10
            /\ LastRate = IF Qualifies(Picked) THEN RateOf(Picked) ELSE None
        /\ (ghost.last.scan = << >> /\ ~ghost.last.fallback) => ghost.last.picked = << >>

\* Twelve on-battery samples with plugged samples between them: the
\* synthetic interval runs from the third to the last on-battery sample.
C25_Witness ==
    /\ RanLast
    /\ ghost.last.fallback
    /\ Cardinality(OnBatteryIndices) = 12
    /\ Picked = <<4, 22>>
    /\ Len(data) = 24
    /\ LastRate # None

\* The interval diagnostics of the weighted estimator's last result.
WeightedDetails == IF HasTimeLeft THEN TimeLeft.interval_details
                   ELSE FullBattery.interval_details

WeightedIntervalsUsed == IF HasTimeLeft THEN TimeLeft.intervals_used
                         ELSE FullBattery.intervals_used

\* The minute of sample i.
MinuteAt(i) == iloc(data, i).timestamp[2]

\* The entry lists the times and percentages of the interval iv, and a
\* duration, a rate and a weight that belong to those times and percentages.
DescribesInterval(entry, iv, weight) ==
    /\ entry.start_time = IsoCell(MinuteAt(iv[1]))
    /\ entry.end_time = IsoCell(MinuteAt(iv[2]))
    /\ entry.start_percentage = PercentAt(iv[1])
    /\ entry.end_percentage = PercentAt(iv[2])
    /\ entry.data_points = iv[2] - iv[1] + 1
    /\ entry.duration_minutes = entry.end_time[2] - entry.start_time[2]
    /\ entry.drain_rate
          = FDiv(Frac(entry.start_percentage - entry.end_percentage, 10),
                 Int2F(entry.duration_minutes))
    /\ entry.weight = weight

\* C26 as stated: the k-th entry of the weighted estimator's diagnostics
\* describes the k-th contributing interval, times, percentages, duration,
\* rate and weight alike; there are intervals_used entries, at most 10.
C26_DetailsConsistent ==
    (RanWeighted /\ ghost.weighted.used # << >>) =>
        /\ Len(WeightedDetails) = WeightedIntervalsUsed
        /\ Len(WeightedDetails) = Len(ghost.weighted.used)
        /\ Len(WeightedDetails) <= 10
        /\ \A k \in 1..Len(WeightedDetails) :
              DescribesInterval(WeightedDetails[k], UsedInterval(k),
                                ghost.weighted.used[k].weight)

\* C27: in one call of get_battery_estimations the interval list that
\* get_weighted_average_drain_rate scans (lines 65-88) is the list that
\* estimate_time_left_last_interval scans before its fallback (lines 225-249).
C27_ScanCopiesAgree ==
    (IsFacade /\ RanWeighted /\ RanLast) =>
        ghost.weighted.intervals = ghost.last.scan

\* Both scans of one call found the same two intervals or more, one closed by
\* a plugged sample or a data gap and one still open at the last sample.
C27_Witness ==
    /\ IsFacade /\ RanWeighted /\ RanLast
    /\ Len(ghost.last.scan) >= 2
    /\ ghost.weighted.intervals = ghost.last.scan
    /\ ghost.last.scan[Len(ghost.last.scan)][2] = Len(data) - 1
    /\ \E i \in 1..(Len(data) - 1) : ~OnBatteryAt(i)

\* The most recent interval of the scan of the last call.
LastScanned == ghost.weighted.intervals[Len(ghost.weighted.intervals)]

LastScannedContributes ==
    /\ ghost.weighted.intervals # << >>
    /\ \E u \in UsedIndices : UsedInterval(u) = LastScanned

MaxEntries == 3

\* The number of columns of CSV_HEADERS and of csv_row.
csv_columns == 22

\* The lines of the log file.
header_line == [kind |-> "header", columns |-> csv_columns, entry |-> 0]

\* csv_row of the n-th entry of this run (entry 0: a row of an earlier run).
csv_row(n) == [kind |-> "row", columns |-> csv_columns, entry |-> n]

\* open(self.log_file, "x") and writer.writerow(CSV_HEADERS); FileExistsError
\* is passed over.
write_csv_header(l) ==
    IF l.exists THEN l
    ELSE [l EXCEPT !.exists = TRUE, !.file = <<header_line>>]

\* writer.writerow(row): the line goes to the buffer of f.
writerow(l, row) == [l EXCEPT !.buffer = Append(@, row)]

\* f.flush(): what the buffer holds goes to the file.
flush(l) == [l EXCEPT !.file = @ \o l.buffer, !.buffer = << >>]

\* Leaving the with block closes f, which flushes it.
close(l) == [flush(l) EXCEPT !.is_open = FALSE]

\* As after_exception, with a break in place of the sleep.
after_exception_ends_loop(l) ==
    [close(l) EXCEPT !.pc = "stopped", !.ended_by = "Exception"]

\* except Exception: the message is printed and the loop is about to sleep.
after_exception(l) == [l EXCEPT !.pc = "sleep_error"]

\* except KeyboardInterrupt: break, and the with block is left.
after_keyboard_interrupt(l) ==
    [close(l) EXCEPT !.pc = "stopped", !.ended_by = "KeyboardInterrupt"]

\* A KeyboardInterrupt that no except clause of the loop catches leaves
\* the with block and log_battery.
keyboard_interrupt_propagates(l) ==
    [close(l) EXCEPT !.pc = "interrupted", !.ended_by = "KeyboardInterrupt"]

\* What the log file may hold when log_battery is called, if it exists.
EarlierLogs == {<< >>, <<header_line>>, <<header_line, csv_row(0)>>}

\* log_battery has been called and is about to call _write_csv_header.
InitLogger ==
    /\ data = << >>
    /\ ret = NoCall
    /\ ghost = [weighted |-> NotRun, last |-> NotRun]
    /\ calls = 0
    /\ runner = NoRunner
    /\ \E existed \in BOOLEAN, earlier \in EarlierLogs :
          /\ ~existed => earlier = << >>
          /\ logger = [pc |-> "header", existed |-> existed, exists |-> existed,
                       earlier |-> earlier, file |-> earlier, buffer |-> << >>,
                       is_open |-> FALSE, entry |-> 0, raised_at |-> "none",
                       ended_by |-> "none"]

LoggerStep(next) ==
    /\ logger' = next
    /\ UNCHANGED <<data, ret, ghost, calls, runner>>

\* Line 48.
WriteCsvHeader ==
    /\ logger.pc = "header"
    /\ LoggerStep([write_csv_header(logger) EXCEPT !.pc = "open"])

\* Lines 50-51: the file is opened for appending, which creates it if need be.
OpenLog ==
    /\ logger.pc = "open"
    /\ LoggerStep([logger EXCEPT !.pc = "entry", !.is_open = TRUE, !.exists = TRUE])

\* Lines 68-105 raise: the data of the entry could not be gathered.
BuildRowRaises ==
    /\ logger.pc = "entry" /\ logger.entry < MaxEntries
    /\ LoggerStep([logger EXCEPT !.pc = "handler", !.entry = @ + 1,
                                 !.raised_at = "build"])

\* Line 107 raises: the writer could not format the row.
WriterowRaises ==
    /\ logger.pc = "entry" /\ logger.entry < MaxEntries
    /\ LoggerStep([logger EXCEPT !.pc = "handler", !.entry = @ + 1,
                                 !.raised_at = "writerow"])

\* Lines 68-107 without an exception.
Writerow ==
    /\ logger.pc = "entry" /\ logger.entry < MaxEntries
    /\ LoggerStep([writerow(logger, csv_row(logger.entry + 1))
                        EXCEPT !.pc = "flush", !.entry = @ + 1])

\* Line 108.
Flush ==
    /\ logger.pc = "flush"
    /\ LoggerStep([flush(logger) EXCEPT !.pc = "status"])

\* Line 111 without an exception.
PrintStatus ==
    /\ logger.pc = "status"
    /\ LoggerStep([logger EXCEPT !.pc = "sleep"])

\* Line 111 raises.
PrintStatusRaises ==
    /\ logger.pc = "status"
    /\ LoggerStep([logger EXCEPT !.pc = "handler", !.raised_at = "status"])

\* Line 56.
Sleep ==
    /\ logger.pc = "sleep"
    /\ LoggerStep([logger EXCEPT !.pc = "entry"])

\* Lines 61-63.
HandleException ==
    /\ logger.pc = "handler"
    /\ LoggerStep(after_exception(logger))

\* Line 64.
SleepAfterException ==
    /\ logger.pc = "sleep_error"
    /\ LoggerStep([logger EXCEPT !.pc = "entry"])

\* Ctrl+C while the body of the try statement runs (lines 55-56, 58-60).
KeyboardInterruptInTry ==
    /\ logger.pc \in {"entry", "flush", "status", "sleep"}
    /\ LoggerStep(after_keyboard_interrupt(logger))

\* Ctrl+C while the except Exception clause runs (lines 62-64).
KeyboardInterruptInHandler ==
    /\ logger.pc \in {"handler", "sleep_error"}
    /\ LoggerStep(keyboard_interrupt_propagates(logger))

NextLogger ==
    \/ WriteCsvHeader
    \/ OpenLog
    \/ BuildRowRaises
    \/ WriterowRaises
    \/ Writerow
    \/ Flush
    \/ PrintStatus
    \/ PrintStatusRaises
    \/ Sleep
    \/ HandleException
    \/ SleepAfterException
    \/ KeyboardInterruptInTry
    \/ KeyboardInterruptInHandler

SpecLogger == InitLogger /\ [][NextLogger]_vars

\* The header lines among the lines f.
HeaderLines(f) == {i \in 1..Len(f) : f[i].kind = "header"}

\* The rows that entries of this run have put into the file or its buffer.
RowsOfRun(l) ==
    {i \in 1..Len(l.file \o l.buffer) : (l.file \o l.buffer)[i].entry > 0}

LoopEnded(l) == l.pc \in {"stopped", "interrupted"}

MaxSigints == 2

Children == {"logger_process", "server_process"}

\* The positions of main inside the wait loop: the test of line 47 and the
\* sleep of line 48.
WaitLoop == {"waiting", "sleeping"}

\* Process.is_alive() for a child in the state s.
is_alive(s) == s \in {"running", "interrupted"}

AliveChildren(r) == {c \in Children : is_alive(r[c])}

\* The steps of lines 51-70, in order.
cleanup_sequence == <<"terminate", "sleep", "kill", "join">>

\* Lines 50-72: every live child is terminated, and killed if it is still
\* alive a second later; both are joined.
cleanup(r) ==
    [r EXCEPT !.pc = "leaving", !.exception = "none",
              !.cleanup = cleanup_sequence,
              !.logger_process = IF is_alive(@) THEN "terminated" ELSE @,
              !.server_process = IF is_alive(@) THEN "terminated" ELSE @]

\* What the SIGINT handler in force raises in main: signal_handler
\* (lines 25-28) calls sys.exit(0), the default handler raises
\* KeyboardInterrupt.
raised_by(handler) ==
    IF handler = "signal_handler" THEN "SystemExit" ELSE "KeyboardInterrupt"

\* The except clauses of main for an exception raised at the position at:
\* line 50 catches KeyboardInterrupt raised in the wait loop, line 74 catches
\* instances of Exception raised inside the outer try and exits with
\* status 1; SystemExit is neither, and KeyboardInterrupt outside the wait
\* loop is not caught.  An exception raised while the interpreter exits
\* ends the join of the exit handler.
main_on_exception(r, exc, at) ==
    IF at = "leaving" THEN [r EXCEPT !.pc = "exited", !.exception = exc]
    ELSE IF exc = "KeyboardInterrupt" /\ at \in WaitLoop THEN cleanup(r)
    ELSE IF exc = "Exception" /\ at # "start"
         THEN [r EXCEPT !.pc = "leaving", !.exception = "SystemExit"]
         ELSE [r EXCEPT !.pc = "leaving", !.exception = exc]

\* SIGINT reaches main, and the children in reach with it (Ctrl+C in a
\* terminal signals the whole foreground process group).
sigint(r, reach) ==
    [main_on_exception(r, raised_by(r.handler), r.pc)
        EXCEPT !.sigints = @ + 1,
               !.sigint = IF r.sigints = 0 THEN r.pc ELSE @,
               !.alive_at_sigint = IF r.sigints = 0 THEN AliveChildren(r) ELSE @,
               !.logger_process =
                    IF "logger_process" \in reach /\ @ = "running"
                    THEN "interrupted" ELSE @,
               !.server_process =
                    IF "server_process" \in reach /\ @ = "running"
                    THEN "interrupted" ELSE @]

\* main has been called.
InitRunner ==
    /\ data = << >>
    /\ ret = NoCall
    /\ ghost = [weighted |-> NotRun, last |-> NotRun]
    /\ calls = 0
    /\ logger = NoLogger
    /\ runner = [pc |-> "start", handler |-> "default",
                 logger_process |-> "unstarted", server_process |-> "unstarted",
                 sigints |-> 0, sigint |-> "none", alive_at_sigint |-> {},
                 exception |-> "none", cleanup |-> << >>]

RunnerStep(next) ==
    /\ runner' = next
    /\ UNCHANGED <<data, ret, ghost, calls, logger>>

\* Line 33.
InstallSignalHandler ==
    /\ runner.pc = "start"
    /\ RunnerStep([runner EXCEPT !.pc = "create", !.handler = "signal_handler"])

\* Lines 37-38 and 41.
StartLoggerProcess ==
    /\ runner.pc = "create"
    /\ RunnerStep([runner EXCEPT !.pc = "start_server", !.logger_process = "running"])

\* Lines 42-44.
StartServerProcess ==
    /\ runner.pc = "start_server"
    /\ RunnerStep([runner EXCEPT !.pc = "waiting", !.server_process = "running"])

\* Starting a process fails with an instance of Exception (lines 41-42).
StartRaises ==
    /\ runner.pc \in {"create", "start_server"}
    /\ RunnerStep(main_on_exception(runner, "Exception", runner.pc))

\* A child ends by itself (the server cannot bind its port, the logger fails
\* outside its loop).
ChildEnds(c) ==
    /\ runner[c] = "running"
    /\ RunnerStep([runner EXCEPT ![c] = "ended"])

\* A child that SIGINT has reached ends: the logger leaves its loop, the
\* server leaves serve_forever.
ChildInterrupted(c) ==
    /\ runner[c] = "interrupted"
    /\ RunnerStep([runner EXCEPT ![c] = "ended_by_sigint"])

\* SIGINT is delivered to main.
Sigint ==
    /\ runner.pc # "exited"
    /\ runner.sigints < MaxSigints
    /\ \E reach \in SUBSET Children : RunnerStep(sigint(runner, reach))

\* Line 47 with a child alive.
WaitLoopGoesOn ==
    /\ runner.pc = "waiting"
    /\ AliveChildren(runner) # {}
    /\ RunnerStep([runner EXCEPT !.pc = "sleeping"])

\* Line 48.
WaitLoopSleeps ==
    /\ runner.pc = "sleeping"
    /\ RunnerStep([runner EXCEPT !.pc = "waiting"])

\* Line 47 with no child alive: the wait loop ends.
WaitLoopEnds ==
    /\ runner.pc = "waiting"
    /\ AliveChildren(runner) = {}
    /\ RunnerStep([runner EXCEPT !.pc = "leaving"])

\* main is left and the interpreter exits; the exit handler of
\* multiprocessing first joins the children that are alive (they are not
\* daemons, lines 37-38).
ExitMain ==
    /\ runner.pc = "leaving"
    /\ AliveChildren(runner) = {}
    /\ RunnerStep([runner EXCEPT !.pc = "exited"])

NextRunner ==
    \/ InstallSignalHandler
    \/ StartLoggerProcess
    \/ StartServerProcess
    \/ StartRaises
    \/ \E c \in Children : ChildEnds(c)
    \/ \E c \in Children : ChildInterrupted(c)
    \/ Sigint
    \/ WaitLoopGoesOn
    \/ WaitLoopSleeps
    \/ WaitLoopEnds
    \/ ExitMain

SpecRunner == InitRunner /\ [][NextRunner]_vars

\* C30 as stated: when main has exited after a SIGINT that reached it in the
\* wait loop with both children running, it has executed its cleanup
\* sequence (terminate, wait, kill, join), and no child is alive.
C30_GracefulShutdown ==
    (/\ runner.pc = "exited"
     /\ runner.sigint \in WaitLoop
     /\ runner.alive_at_sigint = Children) =>
        /\ runner.cleanup = cleanup_sequence
        /\ AliveChildren(runner) = {}

====
